---- MODULE Spec2Model ----
(***************************************************************************)
(* Model of the /chat relay of app.py: the handler chat(), the signer      *)
(* generate_signature(), the JSON serialisation of the envelope, the       *)
(* encodings applied to the request body, and the upstream's outcomes.     *)
(*                                                                         *)
(* Python values are tagged records; a str is a sequence of code points    *)
(* and a bytes object a sequence of octets.                                *)
(***************************************************************************)
EXTENDS Integers, Sequences, FiniteSets, TLC

(***************************************************************************)
(* Bounds                                                                  *)
(***************************************************************************)
\* longest caller message enumerated
MaxMsgLen == 2

(***************************************************************************)
(* Python values                                                           *)
(***************************************************************************)
PyNone == [t |-> "None"]
PyStr(s) == [t |-> "str", s |-> s]
PyInt(n) == [t |-> "int", n |-> n]
PyList(xs) == [t |-> "list", xs |-> xs]
PyDict(items) == [t |-> "dict", items |-> items]
Item(k, v) == [k |-> k, v |-> v]

IsStr(v) == v.t = "str"
IsDict(v) == v.t = "dict"
IsList(v) == v.t = "list"

\* dict: key lookup
HasKey(d, k) == \E i \in 1..Len(d.items) : d.items[i].k = k
GetKey(d, k) == d.items[CHOOSE i \in 1..Len(d.items) : d.items[i].k = k].v

\* Python truth value: None, '', 0, [] and {} are false
Truthy(v) ==
    CASE v.t = "None" -> FALSE
      [] v.t = "str" -> Len(v.s) > 0
      [] v.t = "int" -> v.n # 0
      [] v.t = "list" -> Len(v.xs) > 0
      [] v.t = "dict" -> Len(v.items) > 0
      [] OTHER -> TRUE

(***************************************************************************)
(* String literals of app.py, as code points                               *)
(***************************************************************************)
K_version == <<118, 101, 114, 115, 105, 111, 110>>
K_userId == <<117, 115, 101, 114, 73, 100>>
K_timestamp == <<116, 105, 109, 101, 115, 116, 97, 109, 112>>
K_bubbles == <<98, 117, 98, 98, 108, 101, 115>>
K_type == <<116, 121, 112, 101>>
K_data == <<100, 97, 116, 97>>
K_description == <<100, 101, 115, 99, 114, 105, 112, 116, 105, 111, 110>>
K_event == <<101, 118, 101, 110, 116>>
K_reply == <<114, 101, 112, 108, 121>>
K_message == <<109, 101, 115, 115, 97, 103, 101>>
S_v2 == <<118, 50>>
S_text == <<116, 101, 120, 116>>
S_send == <<115, 101, 110, 100>>
S_content_type == <<97, 112, 112, 108, 105, 99, 97, 116, 105, 111, 110, 47, 106, 115, 111, 110, 59, 32, 99, 104, 97, 114, 115, 101, 116, 61, 85, 84, 70, 45, 56>>

\* the reply texts of chat()
REPLY_CONFIG == <<52311, 48391, 32, 49444, 51221, 51060, 32, 50732, 48148, 47476, 51648, 32, 50506, 49845, 45768, 45796, 46, 32, 44288, 47532, 51088, 50640, 44172, 32, 47928, 51032, 54644, 51452, 49464, 50836, 46>>
REPLY_NOT_OBJECT == <<50732, 48148, 47480, 32, 74, 83, 79, 78, 32, 44061, 52404, 44032, 32, 54596, 50836, 54633, 45768, 45796, 46>>
REPLY_EMPTY_MESSAGE == <<47700, 49884, 51648, 47484, 32, 51077, 47141, 54644, 51452, 49464, 50836, 46>>
REPLY_FALLBACK == <<51396, 49569, 54633, 45768, 45796, 46, 32, 51025, 45813, 51012, 32, 49373, 49457, 54624, 32, 49688, 32, 50630, 49845, 45768, 45796, 46>>
REPLY_NOT_FOUND == <<52311, 48391, 32, 65, 80, 73, 32, 51452, 49548, 44032, 32, 50732, 48148, 47476, 51648, 32, 50506, 49845, 45768, 45796, 46>>
REPLY_AUTH == <<52311, 48391, 32, 51064, 51613, 50640, 32, 49892, 54056, 54664, 49845, 45768, 45796, 46>>
REPLY_SERVICE_PREFIX == <<52311, 48391, 32, 49436, 48708, 49828, 32, 50724, 47448, 32, 40>>
REPLY_UNREACHABLE == <<52311, 48391, 32, 49436, 48708, 49828, 50640, 32, 50672, 44208, 54624, 32, 49688, 32, 50630, 49845, 45768, 45796, 46>>
REPLY_INTERNAL == <<49436, 48260, 32, 45236, 48512, 32, 50724, 47448, 44032, 32, 48156, 49373, 54664, 49845, 45768, 45796, 46>>

(***************************************************************************)
(* str operations                                                          *)
(***************************************************************************)
\* the code points str.isspace() accepts (Basic Multilingual Plane)
Whitespace ==
    (9..13) \cup (28..32) \cup {133, 160, 5760} \cup (8192..8202)
        \cup {8232, 8233, 8239, 8287, 12288}

RECURSIVE lstrip(_)
lstrip(s) ==
    IF s # <<>> /\ Head(s) \in Whitespace THEN lstrip(Tail(s)) ELSE s

RECURSIVE rstrip(_)
rstrip(s) ==
    IF s # <<>> /\ s[Len(s)] \in Whitespace
    THEN rstrip(SubSeq(s, 1, Len(s) - 1))
    ELSE s

\* a strip() that removes nothing
strip_none(s) == s

\* str.strip(): leading and trailing whitespace removed
strip(s) == rstrip(lstrip(s))

\* the concatenation of a sequence of sequences
RECURSIVE Flatten(_)
Flatten(ss) ==
    IF Len(ss) = 0 THEN <<>>
    ELSE IF Len(ss) = 1 THEN ss[1]
    ELSE LET m == Len(ss) \div 2 IN
         Flatten(SubSeq(ss, 1, m)) \o Flatten(SubSeq(ss, m + 1, Len(ss)))

\* str(n) for n >= 0
RECURSIVE IntToStr(_)
IntToStr(n) ==
    IF n < 10 THEN <<48 + n>> ELSE IntToStr(n \div 10) \o <<48 + (n % 10)>>

HexDigit(d) == IF d < 10 THEN 48 + d ELSE 87 + d

(***************************************************************************)
(* json.dumps(obj, ensure_ascii=False)                                     *)
(***************************************************************************)
\* one character of a JSON string: quote, backslash and controls escaped,
\* everything else (non-ASCII included) copied
EscapeChar(c) ==
    CASE c = 34 -> <<92, 34>>
      [] c = 92 -> <<92, 92>>
      [] c = 8 -> <<92, 98>>
      [] c = 9 -> <<92, 116>>
      [] c = 10 -> <<92, 110>>
      [] c = 12 -> <<92, 102>>
      [] c = 13 -> <<92, 114>>
      [] c < 32 /\ c \notin {8, 9, 10, 12, 13} ->
            <<92, 117, 48, 48, HexDigit(c \div 16), HexDigit(c % 16)>>
      [] OTHER -> <<c>>

DumpsStr(s) ==
    <<34>> \o Flatten([i \in 1..Len(s) |-> EscapeChar(s[i])]) \o <<34>>

\* parts joined by ", "
RECURSIVE JoinComma(_)
JoinComma(parts) ==
    IF parts = <<>> THEN <<>>
    ELSE IF Len(parts) = 1 THEN Head(parts)
    ELSE Head(parts) \o <<44, 32>> \o JoinComma(Tail(parts))

RECURSIVE dumps(_)
dumps(v) ==
    CASE v.t = "None" -> <<110, 117, 108, 108>>
      [] v.t = "int" -> IntToStr(v.n)
      [] v.t = "str" -> DumpsStr(v.s)
      [] v.t = "list" ->
            <<91>> \o JoinComma([i \in 1..Len(v.xs) |-> dumps(v.xs[i])]) \o <<93>>
      [] v.t = "dict" ->
            <<123>>
            \o JoinComma([i \in 1..Len(v.items) |->
                   DumpsStr(v.items[i].k) \o <<58, 32>> \o dumps(v.items[i].v)])
            \o <<125>>

(***************************************************************************)
(* Encodings of a str to bytes                                             *)
(***************************************************************************)
EncodeUTF8Char(c) ==
    IF c < 128 THEN <<c>>
    ELSE IF c < 2048 THEN <<192 + (c \div 64), 128 + (c % 64)>>
    ELSE IF c < 65536
         THEN <<224 + (c \div 4096), 128 + ((c \div 64) % 64), 128 + (c % 64)>>
         ELSE <<240 + (c \div 262144), 128 + ((c \div 4096) % 64),
                128 + ((c \div 64) % 64), 128 + (c % 64)>>

\* bytes(s, 'UTF-8')
EncodeUTF8(s) == Flatten([i \in 1..Len(s) |-> EncodeUTF8Char(s[i])])

\* s.encode('iso-8859-1'): one octet per code point, defined below 256
CanEncodeLatin1(s) == \A i \in 1..Len(s) : s[i] < 256
EncodeLatin1(s) == s

(***************************************************************************)
(* generate_signature                                                      *)
(***************************************************************************)
\* hmac.new(key, msg, hashlib.sha256).digest(): a digest determined by the
\* key bytes and the message bytes, distinct for distinct pairs
HmacSha256(key_bytes, msg_bytes) ==
    [alg |-> "hmac-sha256", key |-> key_bytes, msg |-> msg_bytes]

\* base64.b64encode(digest).decode('UTF-8')
B64Encode(digest) == [t |-> "b64str", of |-> digest]

\* bytes(x, 'UTF-8') raises TypeError unless x is a str
generate_signature_raises(secret_key, request_body_string) ==
    ~IsStr(secret_key) \/ ~IsStr(request_body_string)

generate_signature(secret_key, request_body_string) ==
    B64Encode(HmacSha256(EncodeUTF8(secret_key.s),
                         EncodeUTF8(request_body_string.s)))

(***************************************************************************)
(* Results of an operation that may raise                                  *)
(***************************************************************************)
Ok(v) == [ok |-> TRUE, v |-> v]
Raise(cls) == [ok |-> FALSE, cls |-> cls]

\* s contains the str x as a substring
IsSubstring(x, s) ==
    \E i \in 0..(Len(s) - Len(x)) : SubSeq(s, i + 1, i + Len(x)) = x

\* key in container
Contains(container, key) ==
    CASE container.t = "dict" -> Ok(HasKey(container, key))
      [] container.t = "list" ->
            Ok(\E i \in 1..Len(container.xs) : container.xs[i] = PyStr(key))
      [] container.t = "str" -> Ok(IsSubstring(key, container.s))
      [] OTHER -> Raise("TypeError")

\* container[key] for a str key
SubscriptKey(container, key) ==
    IF container.t = "dict"
    THEN IF HasKey(container, key) THEN Ok(GetKey(container, key))
         ELSE Raise("KeyError")
    ELSE Raise("TypeError")

\* len(x)
PyLen(x) ==
    CASE x.t = "list" -> Ok(Len(x.xs))
      [] x.t = "str" -> Ok(Len(x.s))
      [] x.t = "dict" -> Ok(Len(x.items))
      [] OTHER -> Raise("TypeError")

\* x[-1] in place of x[0]
SubscriptLast(x) ==
    CASE x.t = "list" -> IF Len(x.xs) > 0 THEN Ok(x.xs[Len(x.xs)]) ELSE Raise("IndexError")
      [] x.t = "str" -> IF Len(x.s) > 0 THEN Ok(PyStr(<<x.s[Len(x.s)]>>)) ELSE Raise("IndexError")
      [] x.t = "dict" -> Raise("KeyError")
      [] OTHER -> Raise("TypeError")

\* x[0]; the keys of a parsed JSON object are strings, never 0
SubscriptZero(x) ==
    CASE x.t = "list" -> IF Len(x.xs) > 0 THEN Ok(x.xs[1]) ELSE Raise("IndexError")
      [] x.t = "str" -> IF Len(x.s) > 0 THEN Ok(PyStr(<<x.s[1]>>)) ELSE Raise("IndexError")
      [] x.t = "dict" -> Raise("KeyError")
      [] OTHER -> Raise("TypeError")

\* response_data['bubbles'][0]['data']['description']
FirstDescription(bubbles) ==
    LET e0 == SubscriptZero(bubbles) IN
    IF ~e0.ok THEN e0
    ELSE LET d == SubscriptKey(e0.v, K_data) IN
         IF ~d.ok THEN d ELSE SubscriptKey(d.v, K_description)

\* the reply text taken from the parsed upstream response
ExtractReply(response_data) ==
    LET has == Contains(response_data, K_bubbles) IN
    IF ~has.ok THEN has
    ELSE IF ~has.v THEN Ok(PyStr(REPLY_FALLBACK))
    ELSE LET b == SubscriptKey(response_data, K_bubbles) IN
         IF ~b.ok THEN b
         ELSE LET n == PyLen(b.v) IN
              IF ~n.ok THEN n
              ELSE IF n.v > 0 THEN FirstDescription(b.v)
              ELSE Ok(PyStr(REPLY_FALLBACK))

\* Response.raise_for_status(): HTTPError for 4xx and 5xx only
raise_for_status_raises(status_code) == 400 <= status_code /\ status_code < 600

\* the message chosen for a RequestException
error_msg(e) ==
    IF e.response # PyNone
    THEN IF e.response.status_code = 404 THEN REPLY_NOT_FOUND
         ELSE IF e.response.status_code \in {401, 403} THEN REPLY_AUTH
         ELSE REPLY_SERVICE_PREFIX \o IntToStr(e.response.status_code) \o <<41>>
    ELSE REPLY_UNREACHABLE

\* jsonify({'reply': reply}), status
JsonifyReply(reply, status) ==
    [status |-> status, json |-> PyDict(<<Item(K_reply, reply)>>)]

(***************************************************************************)
(* The environment: configuration, library build, callers, upstream        *)
(***************************************************************************)
URL_VALUE == <<104, 116, 116, 112, 115, 58, 47, 47, 99, 108, 111, 118, 97, 46, 101, 120, 97, 109, 112, 108, 101, 47, 105, 110, 118, 111, 107, 101>>
KEY_VALUE == <<99, 50, 86, 106, 99, 109, 86, 48>>

\* os.environ.get(name): None when unset, else the value (possibly '')
EnvValues(value) == {PyNone, PyStr(<<>>), PyStr(value)}

\* The installed requests/urllib3 pair, which app.py does not pin.  It decides
\* (a) how a str passed as data= becomes bytes: http.client encodes it as
\*     ISO-8859-1 (urllib3 1.x), urllib3 2.x encodes it as UTF-8;
\* (b) what Response.json() raises on an undecodable body: a ValueError
\*     before requests 2.27, requests.exceptions.JSONDecodeError (a
\*     RequestException carrying no response) from 2.27 on.
Builds == {"requests<2.27", "requests>=2.27,urllib3<2", "urllib3>=2"}

StrBodyIsUTF8(b) == b = "urllib3>=2"
JsonErrorIsRequestException(b) == b # "requests<2.27"

\* characters of caller messages: space, '"', 'a', U+00E9, U+D55C
MsgChars == {32, 34, 97, 233, 54620}

RECURSIVE SeqsUpTo(_, _)
SeqsUpTo(S, n) ==
    IF n = 0 THEN {<<>>}
    ELSE LET shorter == SeqsUpTo(S, n - 1) IN
         shorter \cup {Append(q, c) : q \in shorter, c \in S}

Messages == SeqsUpTo(MsgChars, MaxMsgLen)

\* what request.get_json(silent=True) has to work on: a body that is no
\* JSON (or has the wrong content type), or a JSON document
NotJson == [parses |-> FALSE]
Parsed(v) == [parses |-> TRUE, value |-> v]

RequestBodies ==
    {NotJson}
    \cup {Parsed(v) : v \in {PyNone, PyInt(5), PyStr(<<97>>), PyList(<<>>),
                            PyDict(<<>>),
                            PyDict(<<Item(K_message, PyNone)>>),
                            PyDict(<<Item(K_message, PyInt(5))>>),
                            PyDict(<<Item(K_message, PyList(<<>>))>>)}}
    \cup {Parsed(PyDict(<<Item(K_message, PyStr(m))>>)) : m \in Messages}

\* request.get_json(silent=True): None instead of an error
get_json(body) == IF body.parses THEN body.value ELSE PyNone

\* str(uuid.uuid4()) and int(time.time() * 1000) of two requests (the clock
\* readings are shortened to 32-bit integers)
UUID_1 == <<49, 50, 51, 101, 52, 53, 54, 55, 45, 101, 56, 57, 98, 45, 52, 50, 100, 51, 45, 97, 52, 53, 54, 45, 52, 50, 54, 54, 49, 52, 49, 55, 52, 48, 48, 48>>
UUID_2 == <<57, 98, 50, 102, 48, 99, 49, 101, 45, 55, 97, 53, 53, 45, 52, 99, 48, 100, 45, 56, 102, 51, 97, 45, 48, 100, 49, 101, 50, 102, 51, 97, 52, 98, 53, 99>>
Fresh == {[uuid |-> UUID_1, millis |-> 1762000000],
          [uuid |-> UUID_2, millis |-> 1762000999]}

\* upstream reply bubbles
Bubble(description) ==
    PyDict(<<Item(K_type, PyStr(S_text)),
             Item(K_data, PyDict(<<Item(K_description, description)>>))>>)
WithBubbles(b) == PyDict(<<Item(K_version, PyStr(S_v2)), Item(K_bubbles, b)>>)

D_hi == PyStr(<<32, 104, 105>>)
D_yo == PyStr(<<121, 111>>)

\* parsed upstream bodies: well-formed, empty, absent and malformed shapes
WellFormedBodies ==
    {WithBubbles(PyList(<<Bubble(D_hi)>>)),
     WithBubbles(PyList(<<Bubble(D_yo), Bubble(D_hi)>>)),
     WithBubbles(PyList(<<Bubble(PyInt(7))>>))}
EmptyBodies ==
    {WithBubbles(PyList(<<>>)), PyDict(<<Item(K_version, PyStr(S_v2))>>), PyDict(<<>>)}
MalformedBodies ==
    {WithBubbles(PyList(<<PyDict(<<Item(K_type, PyStr(S_text))>>)>>)),
     WithBubbles(PyList(<<PyDict(<<Item(K_data, PyDict(<<>>))>>)>>)),
     WithBubbles(PyList(<<PyStr(S_text)>>)),
     WithBubbles(PyInt(5)),
     WithBubbles(PyStr(S_text)),
     WithBubbles(PyNone),
     WithBubbles(PyDict(<<>>)),
     PyList(<<>>),
     PyList(<<PyStr(K_bubbles)>>),
     PyStr(S_text),
     PyInt(5),
     PyNone}

UpstreamBodies ==
    {NotJson} \cup {Parsed(v) : v \in WellFormedBodies \cup EmptyBodies \cup MalformedBodies}

UpstreamStatuses == {200, 201, 300, 400, 401, 403, 404, 503}

\* what requests.post can meet: a failure with no response (the timeout
\* after 10 s, a refused connection, a name that does not resolve), or a
\* response with a status and a body
Unsent == [kind |-> "unsent"]
NetworkFailure(cls) == [kind |-> "failure", cls |-> cls]
UpstreamResponse(status_code, body) ==
    [kind |-> "response", status_code |-> status_code, body |-> body]

UpstreamOutcomes ==
    {NetworkFailure(c) : c \in {"Timeout", "ConnectionError"}}
    \cup {UpstreamResponse(sc, b) : sc \in UpstreamStatuses, b \in UpstreamBodies}

\* the timeout passed to requests.post, seconds
TIMEOUT == 10

(***************************************************************************)
(* State                                                                   *)
(***************************************************************************)
VARIABLES
    CLOVA_INVOKE_URL,     \* module global, read once at start
    CLOVA_SECRET_KEY,     \* module global, read once at start
    build,                \* the installed requests/urllib3 pair
    pc,                   \* where chat() stands
    request_data,         \* chat(): the parsed payload
    user_message,         \* chat(): request_data.get('message', '')
    request_body,         \* chat(): the envelope
    request_body_string,  \* chat(): json.dumps(request_body)
    headers,              \* chat(): the headers of the upstream call
    posts,                \* requests.post calls made by this request
    wire,                 \* what was put on the wire to the upstream
    upstream,             \* what the upstream call met
    exc,                  \* the exception being handled
    response              \* what chat() returned

vars == <<CLOVA_INVOKE_URL, CLOVA_SECRET_KEY, build, pc, request_data,
          user_message, request_body, request_body_string, headers, posts,
          wire, upstream, exc, response>>

config == <<CLOVA_INVOKE_URL, CLOVA_SECRET_KEY, build>>

Init ==
    /\ CLOVA_INVOKE_URL \in EnvValues(URL_VALUE)
    /\ CLOVA_SECRET_KEY \in EnvValues(KEY_VALUE)
    /\ build \in Builds
    /\ pc = "idle"
    /\ request_data = PyNone
    /\ user_message = PyNone
    /\ request_body = PyNone
    /\ request_body_string = PyNone
    /\ headers = PyNone
    /\ posts = 0
    /\ wire = PyNone
    /\ upstream = Unsent
    /\ exc = PyNone
    /\ response = PyNone

\* a check that forgets the secret
ConfigMissing_url_only == ~Truthy(CLOVA_INVOKE_URL)

\* not CLOVA_INVOKE_URL or not CLOVA_SECRET_KEY
ConfigMissing == ~Truthy(CLOVA_INVOKE_URL) \/ ~Truthy(CLOVA_SECRET_KEY)

\* request_data.get('message', '')
GetMessage(data) ==
    IF HasKey(data, K_message) THEN GetKey(data, K_message) ELSE PyStr(<<>>)

\* an exception on its way to the except clauses of chat()
Exception(cls, is_request_exception, resp) ==
    [cls |-> cls, request_exception |-> is_request_exception, response |-> resp]

Return(r) ==
    /\ response' = r
    /\ pc' = "done"
    /\ exc' = PyNone

Throw(e) ==
    /\ exc' = e
    /\ pc' = "except"
    /\ UNCHANGED response

\* chat(): configuration check, payload parsing, message validation
chat_validate(body) ==
    /\ pc = "idle"
    /\ IF ConfigMissing
       THEN /\ Return(JsonifyReply(PyStr(REPLY_CONFIG), 500))
            /\ UNCHANGED <<request_data, user_message>>
       ELSE /\ request_data' = get_json(body)
            /\ IF ~IsDict(request_data')
               THEN /\ Return(JsonifyReply(PyStr(REPLY_NOT_OBJECT), 400))
                    /\ UNCHANGED user_message
               ELSE /\ user_message' = GetMessage(request_data')
                    /\ IF ~IsStr(user_message')
                       THEN Throw(Exception("AttributeError", FALSE, PyNone))
                       ELSE IF ~Truthy(PyStr(strip(user_message'.s)))
                       THEN Return(JsonifyReply(PyStr(REPLY_EMPTY_MESSAGE), 400))
                       ELSE /\ pc' = "build"
                            /\ UNCHANGED <<exc, response>>
    /\ UNCHANGED <<config, request_body, request_body_string, headers, posts,
                   wire, upstream>>

\* the envelope sent to the upstream
Envelope(user_id, timestamp_millis, message) ==
    PyDict(<<Item(K_version, PyStr(S_v2)),
             Item(K_userId, PyStr(user_id)),
             Item(K_timestamp, PyInt(timestamp_millis)),
             Item(K_bubbles,
                  PyList(<<PyDict(<<Item(K_type, PyStr(S_text)),
                                    Item(K_data,
                                         PyDict(<<Item(K_description, message)>>))>>)>>)),
             Item(K_event, PyStr(S_send))>>)

\* chat(): envelope, serialisation, signature, headers
chat_build(fresh) ==
    /\ pc = "build"
    /\ request_body' = Envelope(fresh.uuid, fresh.millis, user_message)
    /\ request_body_string' = PyStr(dumps(request_body'))
    /\ IF generate_signature_raises(CLOVA_SECRET_KEY, request_body_string')
       THEN /\ Throw(Exception("TypeError", FALSE, PyNone))
            /\ UNCHANGED headers
       ELSE /\ headers' =
                 [content_type |-> S_content_type,
                  signature |-> generate_signature(CLOVA_SECRET_KEY,
                                                   request_body_string')]
            /\ pc' = "post"
            /\ UNCHANGED <<exc, response>>
    /\ UNCHANGED <<config, request_data, user_message, posts, wire, upstream>>

\* the str body can be put on the wire by this build
CanEncodeBody(b, s) == StrBodyIsUTF8(b) \/ CanEncodeLatin1(s)

\* the bytes this build puts on the wire for a str body
EncodeBody(b, s) == IF StrBodyIsUTF8(b) THEN EncodeUTF8(s) ELSE EncodeLatin1(s)

\* chat(): requests.post(CLOVA_INVOKE_URL, data=request_body_string,
\* headers=headers, timeout=10)
chat_post(outcome) ==
    /\ pc = "post"
    /\ posts' = posts + 1
    /\ IF ~CanEncodeBody(build, request_body_string.s)
       THEN \* UnicodeEncodeError before anything is sent
            /\ Throw(Exception("UnicodeEncodeError", FALSE, PyNone))
            /\ UNCHANGED <<wire, upstream>>
       ELSE /\ wire' = [url |-> CLOVA_INVOKE_URL,
                        data |-> EncodeBody(build, request_body_string.s),
                        headers |-> headers,
                        timeout |-> TIMEOUT]
            /\ upstream' = outcome
            /\ IF outcome.kind = "failure"
               THEN Throw(Exception(outcome.cls, TRUE, PyNone))
               ELSE /\ pc' = "extract"
                    /\ UNCHANGED <<exc, response>>
    /\ UNCHANGED <<config, request_data, user_message, request_body,
                   request_body_string, headers>>

\* chat(): raise_for_status, response.json(), extraction of the reply
chat_extract ==
    /\ pc = "extract"
    /\ IF raise_for_status_raises(upstream.status_code)
       THEN Throw(Exception("HTTPError", TRUE, upstream))
       ELSE IF ~upstream.body.parses
       THEN Throw(Exception("JSONDecodeError",
                            JsonErrorIsRequestException(build), PyNone))
       ELSE LET bot_reply == ExtractReply(upstream.body.value) IN
            IF bot_reply.ok
            THEN Return(JsonifyReply(bot_reply.v, 200))
            ELSE Throw(Exception(bot_reply.cls, FALSE, PyNone))
    /\ UNCHANGED <<config, request_data, user_message, request_body,
                   request_body_string, headers, posts, wire, upstream>>

\* a handler that tries the upstream once more before giving up
except_RequestException_retry ==
    /\ pc = "except"
    /\ exc.request_exception
    /\ IF posts < 2
       THEN /\ pc' = "post"
            /\ exc' = PyNone
            /\ UNCHANGED response
       ELSE Return(JsonifyReply(PyStr(error_msg(exc)), 500))
    /\ UNCHANGED <<config, request_data, user_message, request_body,
                   request_body_string, headers, posts, wire, upstream>>

\* chat(): except requests.exceptions.RequestException
except_RequestException ==
    /\ pc = "except"
    /\ exc.request_exception
    /\ Return(JsonifyReply(PyStr(error_msg(exc)), 500))
    /\ UNCHANGED <<config, request_data, user_message, request_body,
                   request_body_string, headers, posts, wire, upstream>>

\* chat(): except Exception
except_Exception ==
    /\ pc = "except"
    /\ ~exc.request_exception
    /\ Return(JsonifyReply(PyStr(REPLY_INTERNAL), 500))
    /\ UNCHANGED <<config, request_data, user_message, request_body,
                   request_body_string, headers, posts, wire, upstream>>

\* the next POST /chat: nothing of a request survives it
next_request ==
    /\ pc = "done"
    /\ pc' = "idle"
    /\ request_data' = PyNone
    /\ user_message' = PyNone
    /\ request_body' = PyNone
    /\ request_body_string' = PyNone
    /\ headers' = PyNone
    /\ posts' = 0
    /\ wire' = PyNone
    /\ upstream' = Unsent
    /\ exc' = PyNone
    /\ response' = PyNone
    /\ UNCHANGED config

Next ==
    \/ \E body \in RequestBodies : chat_validate(body)
    \/ \E fresh \in Fresh : chat_build(fresh)
    \/ \E outcome \in UpstreamOutcomes : chat_post(outcome)
    \/ chat_extract
    \/ except_RequestException
    \/ except_Exception
    \/ next_request

Spec == Init /\ [][Next]_vars

(***************************************************************************)
(* Properties                                                              *)
(***************************************************************************)
ReplyOf(r) == GetKey(r.json, K_reply)
HasReply(r) == IsDict(r.json) /\ HasKey(r.json, K_reply)
Replied(status, text) == response = JsonifyReply(PyStr(text), status)

Absent(v) == v = PyNone \/ v = PyStr(<<>>)
ConfigAbsent == Absent(CLOVA_INVOKE_URL) \/ Absent(CLOVA_SECRET_KEY)

Is2xx(status_code) == 200 <= status_code /\ status_code <= 299
GotResponse == upstream.kind = "response"

\* C1: when the invoke URL or the secret is absent, every /chat request ends
\* with HTTP 500 and the configuration-error reply, without any upstream
\* call: nothing is posted, nothing is put on the wire, and the handler
\* never gets past its first step.
C1_ConfigErrorShortCircuits ==
    ConfigAbsent =>
        /\ posts = 0
        /\ wire = PyNone
        /\ upstream = Unsent
        /\ pc \in {"idle", "done"}
        /\ pc = "done" => Replied(500, REPLY_CONFIG)

\* C1 witness: a request answered while the URL is set and the secret is not
C1_Witness ==
    /\ CLOVA_INVOKE_URL = PyStr(URL_VALUE)
    /\ CLOVA_SECRET_KEY = PyNone
    /\ pc = "done"
    /\ response.status = 500

\* the payload is no JSON object, or has no message, or its message is a
\* string of whitespace only (the empty string included)
InvalidPayload(data) ==
    \/ ~IsDict(data)
    \/ ~HasKey(data, K_message)
    \/ /\ IsStr(GetKey(data, K_message))
       /\ \A i \in 1..Len(GetKey(data, K_message).s) :
              GetKey(data, K_message).s[i] \in Whitespace

\* C2: with the configuration present, a request whose payload is not a JSON
\* object, or whose message is missing, empty or whitespace-only, is answered
\* with HTTP 400 and a body that has a reply field, and no upstream call is
\* made for it.
C2_ValidationRejects ==
    (~ConfigAbsent /\ pc # "idle" /\ InvalidPayload(request_data)) =>
        /\ pc = "done"
        /\ response.status = 400
        /\ HasReply(response)
        /\ posts = 0
        /\ wire = PyNone
        /\ upstream = Unsent

\* C2 witness: a message of two spaces was rejected
C2_Witness ==
    /\ ~ConfigAbsent
    /\ pc = "done"
    /\ request_data = PyDict(<<Item(K_message, PyStr(<<32, 32>>))>>)
    /\ response.status = 400

\* C3: whatever is put on the wire is byte for byte the string the signer was
\* given, and the signature header is the signature of the configured secret
\* and exactly that string.
C3_SignedIsTransmitted ==
    wire # PyNone =>
        /\ wire.headers.signature =
               generate_signature(CLOVA_SECRET_KEY, request_body_string)
        /\ wire.data = wire.headers.signature.of.msg

ReplyForStatus(status_code) ==
    IF status_code = 404 THEN REPLY_NOT_FOUND
    ELSE IF status_code \in {401, 403} THEN REPLY_AUTH
    ELSE REPLY_SERVICE_PREFIX \o IntToStr(status_code) \o <<41>>

\* C5: every upstream status outside 2xx ends the request with HTTP 500 and
\* the reply chosen by that status; no such response is taken for a success.
C5_NonSuccessStatusFails ==
    (pc = "done" /\ GotResponse /\ ~Is2xx(upstream.status_code)) =>
        Replied(500, ReplyForStatus(upstream.status_code))

\* C6: a network failure ends the request with HTTP 500 and the
\* cannot-connect reply, and that reply is given to no request whose upstream
\* call received an HTTP status.
C6_UnreachableOnlyWithoutResponse ==
    pc = "done" =>
        /\ upstream.kind = "failure" => Replied(500, REPLY_UNREACHABLE)
        /\ ReplyOf(response) = PyStr(REPLY_UNREACHABLE) => ~GotResponse

\* the parsed upstream response, once a 2xx response with a JSON body is in
Parsed2xx == GotResponse /\ Is2xx(upstream.status_code) /\ upstream.body.parses
response_data == upstream.body.value

\* the response holds a non-empty list of bubbles whose element 0 has a
\* data object with a description
HasFirstDescription(rd) ==
    /\ IsDict(rd)
    /\ HasKey(rd, K_bubbles)
    /\ IsList(GetKey(rd, K_bubbles))
    /\ Len(GetKey(rd, K_bubbles).xs) > 0
    /\ IsDict(GetKey(rd, K_bubbles).xs[1])
    /\ HasKey(GetKey(rd, K_bubbles).xs[1], K_data)
    /\ IsDict(GetKey(GetKey(rd, K_bubbles).xs[1], K_data))
    /\ HasKey(GetKey(GetKey(rd, K_bubbles).xs[1], K_data), K_description)

\* the response is an object whose bubbles are missing or an empty list
NoBubbles(rd) ==
    /\ IsDict(rd)
    /\ \/ ~HasKey(rd, K_bubbles)
       \/ /\ IsList(GetKey(rd, K_bubbles))
          /\ Len(GetKey(rd, K_bubbles).xs) = 0

\* C7: after a 2xx response with a parsed body, a non-empty bubbles list
\* gives HTTP 200 with the description of element 0 as the reply, unchanged,
\* and a missing or empty list gives HTTP 200 with the fallback reply.
C7_FirstBubbleOrFallback ==
    (pc = "done" /\ Parsed2xx) =>
        /\ HasFirstDescription(response_data) =>
               response =
                   JsonifyReply(
                       GetKey(GetKey(GetKey(response_data, K_bubbles).xs[1], K_data),
                              K_description),
                       200)
        /\ NoBubbles(response_data) => Replied(200, REPLY_FALLBACK)

\* C7 witness: a request answered from a response holding two bubbles
C7_Witness ==
    /\ pc = "done"
    /\ Parsed2xx
    /\ response_data = WithBubbles(PyList(<<Bubble(D_yo), Bubble(D_hi)>>))
    /\ response.status = 200

\* C8: a parsed 2xx response of any other shape (element 0 without data or
\* description, bubbles that are no list, a top-level value that is no
\* object) is answered with the fallback reply as well.
C8_MalformedTakesFallback ==
    (pc = "done" /\ Parsed2xx
        /\ ~HasFirstDescription(response_data) /\ ~NoBubbles(response_data)) =>
        Replied(200, REPLY_FALLBACK)

\* the description the envelope carries
EnvelopeDescription(body) ==
    GetKey(GetKey(GetKey(body, K_bubbles).xs[1], K_data), K_description)

\* C9: the message in the outbound envelope is the caller's message with its
\* leading and trailing whitespace removed.
C9_EnvelopeCarriesTrimmedMessage ==
    request_body # PyNone =>
        EnvelopeDescription(request_body) =
            PyStr(strip(GetKey(request_data, K_message).s))

\* C10: every request ends with a body that has a reply field and with a
\* status among 200, 400 and 500, every exception raised is met by a handler,
\* and 200 is returned only after exactly one upstream call that succeeded.
C10_AlwaysAReply ==
    /\ pc = "except" => ENABLED (except_RequestException \/ except_Exception)
    /\ pc = "done" =>
        /\ HasReply(response)
        /\ response.status \in {200, 400, 500}
        /\ response.status = 200 =>
               (posts = 1 /\ GotResponse /\ Is2xx(upstream.status_code))

====
